---- MODULE Spec2Model ----
(***************************************************************************)
(* Model of the GrowthMatch content generator (src/app.py and              *)
(* src/config/setting.py): the two Flask endpoints, the two generator      *)
(* pipelines, the LLMFactory and the two response schemas.                 *)
(*                                                                         *)
(* Representation.  A Python string is a sequence of atoms; the three      *)
(* characters the sanitizers look at are atoms of their own, and a run of  *)
(* other characters (a key name, a phrase) is one atom.  A generated text  *)
(* is represented by its number of characters, a generated list by its     *)
(* number of entries: the schemas constrain nothing else.                  *)
(***************************************************************************)
EXTENDS Integers, Sequences, FiniteSets, TLC

\* ------------------------------------------------------------------ bounds

\* The largest number of key/value pairs of a request body.
MaxFields == 3

\* ----------------------------------------------------------------- strings

\* The single quote, the double quote and the backtick (written out: the
\* character itself cannot stand in a string of this notation).
SQ == "'"
DQ == "\""
BT == "<backtick>"

KeyTranscript == <<"2.AI Transcript Rough">>
KeyTopic == <<"12.Topic Name">>

\* The keys a request body may hold: the two required keys, and two
\* spellings of the optional key 6.Name that carry quote or backtick
\* characters.
RawKeys == { KeyTranscript, KeyTopic, <<SQ, "6.Name", DQ>>, <<BT, "6.Name">> }

\* The values a field may hold: plain text, and text with all three
\* characters in it.
Values == { <<"Acme">>, <<SQ, "Q3", DQ, " growth", BT>> }

EmptyStr == << >>

\* str.replace(old, "") for a one-character old.
replace(s, old) == SelectSeq(s, LAMBDA c : c # old)

\* ------------------------------------------------------------ dictionaries

EmptyDict == [k \in {} |-> EmptyStr]

\* d[k] = v
DictSet(d, k, v) == [x \in (DOMAIN d) \cup {k} |-> IF x = k THEN v ELSE d[x]]

\* A lookup written d[k]: it raises KeyError for an absent key.
dict_subscript(d, k) ==
    IF k \in DOMAIN d
    THEN [raised |-> FALSE, value |-> d[k]]
    ELSE [raised |-> TRUE, value |-> EmptyStr]

\* An evaluated lookup: the value, or the fact that it raised KeyError.
\* d.get(k, "") never raises.
dict_get(d, k) ==
    IF k \in DOMAIN d
    THEN [raised |-> FALSE, value |-> d[k]]
    ELSE [raised |-> FALSE, value |-> EmptyStr]

\* The request bodies: the items of a JSON object in their order, keys
\* distinct.
IsBody(items) ==
    \A i, j \in 1..Len(items) : i # j => items[i].key # items[j].key

Bodies ==
    { b \in UNION { [1..n -> [key : RawKeys, value : Values]] : n \in 0..MaxFields } :
        IsBody(b) }

Keys(items) == { items[i].key : i \in 1..Len(items) }

\* ---------------------------------------------------------------- settings

\* OpenAISettings with the defaults of LLMProviderSettings: temperature 0.0,
\* max_tokens None, max_retries 5.
OpenAISettings ==
    [ temperature |-> 0, max_tokens |-> "None", max_retries |-> 5,
      api_key |-> "OPENAI_API_KEY", default_model |-> "gpt-4o" ]

\* Settings: its two attributes and their values.
Settings == [ app_name |-> "GenAI Project Template", openai |-> OpenAISettings ]

\* The attribute names getattr(get_settings(), provider) finds.
SettingsAttributes == DOMAIN Settings

\* The names for which _initialize_client has an initializer.
client_initializers == { "openai" }

\* ----------------------------------------------------------------- schemas

\* Field(max_length, min_length, min_items, max_items) of the two response
\* models; text names the long text field.  The description of a field is
\* metadata: no validator is declared on either model.
\* SocialMediaPost with the title bound of BlogPost.
SocialMediaPost_BlogTitle ==
    [ name |-> "SocialMediaPost", text |-> "body",
      title_max |-> 120, text_min |-> 500, text_max |-> 2100,
      hashtags_min |-> 3, hashtags_max |-> 3 ]

SocialMediaPost ==
    [ name |-> "SocialMediaPost", text |-> "body",
      title_max |-> 70, text_min |-> 500, text_max |-> 2100,
      hashtags_min |-> 3, hashtags_max |-> 3 ]

BlogPost ==
    [ name |-> "BlogPost", text |-> "contentBody",
      title_max |-> 120, text_min |-> 2800, text_max |-> 4000,
      hashtags_min |-> 3, hashtags_max |-> 5 ]

AllFields == { "title", "text", "hashtags" }

\* What the model may produce for a schema: title and text by their number
\* of characters (len), hashtags by their number of entries; structured
\* tells whether the text follows the layout its field description asks
\* for, and present names the fields the output holds at all.
TitleLengths == { 70, 71, 120, 121 }
TextLengths == { 499, 500, 2100, 2101, 2799, 2800, 4000, 4001 }
HashtagCounts == { 2, 3, 5, 6 }

Outputs ==
    [ title : TitleLengths,
      text : [ len : TextLengths, structured : BOOLEAN ],
      hashtags : HashtagCounts,
      present : { AllFields } \cup { AllFields \ {f} : f \in AllFields } ]

\* Validation of an output against a response model: every field is
\* required (...) and within its declared bounds.
Validates(schema, o) ==
    /\ o.present = AllFields
    /\ o.title <= schema.title_max
    /\ o.text.len >= schema.text_min
    /\ o.text.len <= schema.text_max
    /\ o.hashtags >= schema.hashtags_min
    /\ o.hashtags <= schema.hashtags_max

\* ------------------------------------------------------------- LLMFactory

NoError == [ kind |-> "None", msg |-> EmptyStr ]

NoFactory == [ built |-> FALSE, provider |-> "None", error |-> NoError ]

\* LLMFactory(provider): getattr on the settings, then _initialize_client.
LLMFactory(provider) ==
    IF provider \notin SettingsAttributes
    THEN [ built |-> FALSE, provider |-> provider,
           error |-> [ kind |-> "AttributeError",
                       msg |-> <<"'Settings' object has no attribute ", provider>> ] ]
    ELSE IF provider \in client_initializers
    THEN [ built |-> TRUE, provider |-> provider, error |-> NoError ]
    ELSE [ built |-> FALSE, provider |-> provider,
           error |-> [ kind |-> "ValueError",
                       msg |-> <<"Unsupported LLM provider: ", provider>> ] ]

\* kwargs.get(name, default)
KwGet(kwargs, name, default) ==
    IF name \in DOMAIN kwargs THEN kwargs[name] ELSE default

NoKwargs == [k \in {} |-> 0]

\* completion_params of create_completion.
create_completion_params(settings, response_model, msgs, kwargs) ==
    [ model |-> KwGet(kwargs, "model", settings.default_model),
      temperature |-> KwGet(kwargs, "temperature", settings.temperature),
      max_retries |-> KwGet(kwargs, "max_retries", settings.max_retries),
      max_tokens |-> KwGet(kwargs, "max_tokens", settings.max_tokens),
      response_model |-> response_model,
      messages |-> msgs ]

NoParams == [ response_model |-> [ name |-> "None" ] ]

\* --------------------------------------------------------------- pipelines

\* key.replace("'", "").replace('"', "")
SanitizeKeyPost(key) == replace(replace(key, SQ), DQ)

\* The blog sanitizer without its third replace.
SanitizeKeyBlog_NoBacktick(key) == replace(replace(key, SQ), DQ)

\* key.replace("'", "").replace('"', "").replace(backtick, "")
SanitizeKeyBlog(key) == replace(replace(replace(key, SQ), DQ), BT)

SanitizeKey(g, key) ==
    IF g = "PostGenerator" THEN SanitizeKeyPost(key) ELSE SanitizeKeyBlog(key)

\* The value stored under the sanitized key: the request's value.
SanitizeValue(value) == value

\* The loop over request_data.items(): a later item overwrites an earlier
\* one of the same new key.
RECURSIVE SanitizeLoop(_, _, _, _)
SanitizeLoop(g, items, i, acc) ==
    IF i > Len(items)
    THEN acc
    ELSE SanitizeLoop(g, items, i + 1,
                      DictSet(acc, SanitizeKey(g, items[i].key),
                              SanitizeValue(items[i].value)))

Sanitize(g, items) == SanitizeLoop(g, items, 1, EmptyDict)

\* The keys the templates read, in the order of their place in the text.
PostSystemKeys ==
    << "6.Name", "6.Company Description", "11.Full Name", "11.Bio",
       "7.Brand Values", "7.Brand Personalities", "7.Tone of Voice Principles",
       "7.Language Dos", "7.Language Donts", "7.Audience Adaptations",
       "7.On Brand Examples", "7.Off Brand (Bad) Examples",
       "7.Narrative and Storytelling Style", "7.Key Messages",
       "7.Social Post Writing Style Guide", "14.array", "13.array",
       "11.Social Post Sample 1", "11.Social Post Sample 2",
       "11.Social Post Sample 3" >>

BlogSystemKeys ==
    << "6.Name", "6.Company Description", "11.Full Name", "11.Bio",
       "7.Long Form Writing Style Guide", "7.Brand Values",
       "7.Tone of Voice Principles", "14.array", "13.array",
       "11.Long Form Text Sample 1", "11.Long Form Text Sample 2",
       "11.Long Form Text Sample 3" >>

UserKeys == << "2.AI Transcript Rough", "12.Topic Name" >>

SystemKeys(g) == IF g = "PostGenerator" THEN PostSystemKeys ELSE BlogSystemKeys

\* The evaluated lookups of a template, one per placeholder; the fixed text
\* between the placeholders is the same for every request and is left out.
Lookups(sanitized, keys) == [ i \in 1..Len(keys) |-> dict_get(sanitized, <<keys[i]>>) ]

\* The content of a message: the placeholder values in order.
Content(sanitized, keys) == [ i \in 1..Len(keys) |-> Lookups(sanitized, keys)[i].value ]

Raises(sanitized, keys) == \E i \in 1..Len(keys) : Lookups(sanitized, keys)[i].raised

\* messages = [system, user]
BuildMessages(g, sanitized) ==
    << [ role |-> "system", content |-> Content(sanitized, SystemKeys(g)) ],
       [ role |-> "user", content |-> Content(sanitized, UserKeys) ] >>

\* The response model each generator passes to create_completion.
ResponseModel(g) == IF g = "PostGenerator" THEN SocialMediaPost ELSE BlogPost

\* The dictionary a generator returns from a completion.
Result(g, c) ==
    IF g = "PostGenerator"
    THEN [ title |-> c.title, body |-> c.text, hashtags |-> c.hashtags ]
    ELSE [ title |-> c.title, contentBody |-> c.text, hashtags |-> c.hashtags ]

NoResult == [ none |-> TRUE ]

Generators == { "PostGenerator", "BlogPostGenerator" }

\* --------------------------------------------------------------- endpoints

\* The required fields in the other order.
required_fields_swapped == << KeyTopic, KeyTranscript >>

required_fields == << KeyTranscript, KeyTopic >>

\* The first required field the body lacks, 0 when it lacks none.
FirstMissing(items) ==
    IF \E i \in 1..Len(required_fields) : required_fields[i] \notin Keys(items)
    THEN CHOOSE i \in 1..Len(required_fields) :
            /\ required_fields[i] \notin Keys(items)
            /\ \A j \in 1..(i - 1) : required_fields[j] \in Keys(items)
    ELSE 0

\* str(e)
str(e) == e.msg

NoResponse == [ status |-> 0, body |-> [ error |-> EmptyStr ] ]

MissingFieldResponse(field) ==
    [ status |-> 400, body |-> [ error |-> <<"Missing required field: ">> \o field ] ]

\* The except clause of generate_post.
PostErrorResponse(e) == [ status |-> 500, body |-> [ error |-> str(e) ] ]

\* The except clause of generate_blog.
BlogErrorResponse(e) ==
    [ status |-> 500, body |-> [ error |-> <<"Internal server error">> ] ]

ErrorResponse(ep, e) ==
    IF ep = "generate_post" THEN PostErrorResponse(e) ELSE BlogErrorResponse(e)

\* The line each except clause writes server-side.
ErrorLine(ep, e) ==
    IF ep = "generate_post"
    THEN <<"Error: ">> \o str(e)
    ELSE <<"Error generating blog post: ">> \o str(e)

\* ------------------------------------------------------------- environment

\* The provider names LLMFactory is constructed with.
Providers == { "openai", "app_name", "anthropic" }

\* What the call of the instructor client may raise.
ClientErrors ==
    { [ kind |-> "GenerationFailure", msg |-> <<"3 validation errors for response">> ],
      [ kind |-> "ProviderFailure", msg |-> <<"Rate limit reached for org-1">> ],
      [ kind |-> "OtherError", msg |-> <<"Connection aborted">> ] }

\* A generator has no except clause: what create_completion raises leaves
\* the generator as it is, and the generator is not entered again.
Propagate(e) == e

\* A generator that builds its request again when the client raises.
AfterClientFailure_Resubmit == "MessagesBuilt"

AfterClientFailure == "Failed"

\* ------------------------------------------------------------------- state

VARIABLES
    endpoint,           \* the route of the request, None for a direct call
    generator,          \* the generator the request runs
    request_json,       \* request.json / request_data: the items of the body
    pc,                 \* where the request is
    sanitized_data,     \* the generator's dictionary
    messages,           \* the two messages
    llm,                \* the LLMFactory last constructed
    completion_params,  \* what create_completion handed to the client
    calls,              \* calls of create_completion
    completion,         \* what the client returned
    exception,          \* what was raised
    result,             \* what the generator returned
    response,           \* the HTTP response
    logged              \* the error lines written server-side

vars ==
    << endpoint, generator, request_json, pc, sanitized_data, messages, llm,
       completion_params, calls, completion, exception, result, response,
       logged >>

NoCompletion ==
    [ title |-> 0, text |-> [ len |-> 0, structured |-> FALSE ],
      hashtags |-> 0, present |-> {} ]

Init ==
    /\ endpoint = "None"
    /\ generator = "None"
    /\ request_json = << >>
    /\ pc = "Idle"
    /\ sanitized_data = EmptyDict
    /\ messages = << >>
    /\ llm = NoFactory
    /\ completion_params = NoParams
    /\ calls = 0
    /\ completion = NoCompletion
    /\ exception = NoError
    /\ result = NoResult
    /\ response = NoResponse
    /\ logged = << >>

\* LLMFactory(provider), constructed on its own.
ConstructFactory(provider) ==
    /\ pc = "Idle"
    /\ llm' = LLMFactory(provider)
    /\ UNCHANGED << endpoint, generator, request_json, pc, sanitized_data,
                    messages, completion_params, calls, completion, exception,
                    result, response, logged >>

\* PostGenerator(request_data) or BlogPostGenerator(request_data), called
\* on its own.
Generate(g, body) ==
    /\ pc = "Idle"
    /\ generator' = g
    /\ request_json' = body
    /\ pc' = "Received"
    /\ UNCHANGED << endpoint, sanitized_data, messages, llm, completion_params,
                    calls, completion, exception, result, response, logged >>

\* POST /generate_post: the body goes to PostGenerator unchecked.
generate_post(body) ==
    /\ pc = "Idle"
    /\ endpoint' = "generate_post"
    /\ generator' = "PostGenerator"
    /\ request_json' = body
    /\ pc' = "Received"
    /\ UNCHANGED << sanitized_data, messages, llm, completion_params, calls,
                    completion, exception, result, response, logged >>

\* POST /generate_blog: 400 for the first required field the body lacks,
\* BlogPostGenerator otherwise.
generate_blog(body) ==
    /\ pc = "Idle"
    /\ endpoint' = "generate_blog"
    /\ request_json' = body
    /\ IF FirstMissing(body) # 0
       THEN /\ response' = MissingFieldResponse(required_fields[FirstMissing(body)])
            /\ pc' = "Rejected"
            /\ UNCHANGED generator
       ELSE /\ generator' = "BlogPostGenerator"
            /\ pc' = "Received"
            /\ UNCHANGED response
    /\ UNCHANGED << sanitized_data, messages, llm, completion_params, calls,
                    completion, exception, result, logged >>

\* The sanitizing loop of the generator.
SanitizeStep ==
    /\ pc = "Received"
    /\ sanitized_data' = Sanitize(generator, request_json)
    /\ pc' = "Sanitized"
    /\ UNCHANGED << endpoint, generator, request_json, messages, llm,
                    completion_params, calls, completion, exception, result,
                    response, logged >>

\* The two f-strings and the messages list; a lookup that raises ends the
\* generator.
BuildStep ==
    /\ pc = "Sanitized"
    /\ IF \/ Raises(sanitized_data, SystemKeys(generator))
          \/ Raises(sanitized_data, UserKeys)
       THEN /\ exception' = [ kind |-> "KeyError", msg |-> <<"KeyError">> ]
            /\ pc' = "Failed"
            /\ UNCHANGED messages
       ELSE /\ messages' = BuildMessages(generator, sanitized_data)
            /\ pc' = "MessagesBuilt"
            /\ UNCHANGED exception
    /\ UNCHANGED << endpoint, generator, request_json, sanitized_data, llm,
                    completion_params, calls, completion, result, response,
                    logged >>

\* llm = LLMFactory("openai"); llm.create_completion(response_model, messages)
InvokeStep ==
    /\ pc = "MessagesBuilt"
    /\ llm' = LLMFactory("openai")
    /\ IF llm'.built
       THEN /\ completion_params' =
                  create_completion_params(Settings[llm'.provider],
                                           ResponseModel(generator), messages,
                                           NoKwargs)
            /\ calls' = calls + 1
            /\ pc' = "AwaitingCompletion"
            /\ UNCHANGED exception
       ELSE /\ exception' = llm'.error
            /\ pc' = "Failed"
            /\ UNCHANGED << completion_params, calls >>
    /\ UNCHANGED << endpoint, generator, request_json, sanitized_data,
                    messages, completion, result, response, logged >>

\* The client returns an instance of the response model, and the generator
\* returns its dictionary.
ClientReturns(o) ==
    /\ pc = "AwaitingCompletion"
    /\ Validates(completion_params.response_model, o)
    /\ completion' = o
    /\ result' = Result(generator, o)
    /\ pc' = "Validated"
    /\ UNCHANGED << endpoint, generator, request_json, sanitized_data,
                    messages, llm, completion_params, calls, exception,
                    response, logged >>

\* The client raises.
ClientRaises(e) ==
    /\ pc = "AwaitingCompletion"
    /\ exception' = Propagate(e)
    /\ pc' = AfterClientFailure
    /\ UNCHANGED << endpoint, generator, request_json, sanitized_data,
                    messages, llm, completion_params, calls, completion,
                    result, response, logged >>

\* The endpoint answers: jsonify(result), or its except clause.
Respond ==
    /\ pc \in { "Validated", "Failed" }
    /\ endpoint # "None"
    /\ response = NoResponse
    /\ IF pc = "Validated"
       THEN /\ response' = [ status |-> 200, body |-> result ]
            /\ UNCHANGED logged
       ELSE /\ response' = ErrorResponse(endpoint, exception)
            /\ logged' = Append(logged, ErrorLine(endpoint, exception))
    /\ UNCHANGED << endpoint, generator, request_json, pc, sanitized_data,
                    messages, llm, completion_params, calls, completion,
                    exception, result >>

Next ==
    \/ \E p \in Providers : ConstructFactory(p)
    \/ \E g \in Generators, b \in Bodies : Generate(g, b)
    \/ \E b \in Bodies : generate_post(b)
    \/ \E b \in Bodies : generate_blog(b)
    \/ SanitizeStep
    \/ BuildStep
    \/ InvokeStep
    \/ \E o \in Outputs : ClientReturns(o)
    \/ \E e \in ClientErrors : ClientRaises(e)
    \/ Respond

Spec == Init /\ [][Next]_vars

\* ------------------------------------------------------------------ claims

HasChar(s, c) == \E i \in 1..Len(s) : s[i] = c

\* The placeholder values of the two messages, once they are built.
SlotValues ==
    { messages[1].content[i] : i \in 1..Len(messages[1].content) }
    \cup { messages[2].content[i] : i \in 1..Len(messages[2].content) }

\* The value the messages hold for template key k.
SlotOf(k) ==
    IF \E i \in 1..Len(UserKeys) : UserKeys[i] = k
    THEN messages[2].content[CHOOSE i \in 1..Len(UserKeys) : UserKeys[i] = k]
    ELSE messages[1].content[CHOOSE i \in 1..Len(SystemKeys(generator)) :
                                SystemKeys(generator)[i] = k]

TemplateKeys ==
    { SystemKeys(generator)[i] : i \in 1..Len(SystemKeys(generator)) }
    \cup { UserKeys[i] : i \in 1..Len(UserKeys) }

Built == messages # << >>

\* C2: a generator that returns, returns an object within every length and
\* item-count bound of its schema (social: title <= 70, body 500..2100,
\* exactly 3 hashtags; blog: title <= 120, contentBody 2800..4000, 3 to 5
\* hashtags), the 200 response carries that object, and in every other
\* case nothing is returned and the response is an error.
C2_ResultWithinSchema ==
    /\ pc = "Validated" /\ generator = "PostGenerator" =>
          /\ DOMAIN result = { "title", "body", "hashtags" }
          /\ result.title <= 70
          /\ result.body.len >= 500 /\ result.body.len <= 2100
          /\ result.hashtags = 3
    /\ pc = "Validated" /\ generator = "BlogPostGenerator" =>
          /\ DOMAIN result = { "title", "contentBody", "hashtags" }
          /\ result.title <= 120
          /\ result.contentBody.len >= 2800 /\ result.contentBody.len <= 4000
          /\ result.hashtags >= 3 /\ result.hashtags <= 5
    /\ pc # "Validated" => result = NoResult
    /\ response.status = 200 => pc = "Validated" /\ response.body = result
    /\ response.status # 200 => DOMAIN response.body = { "error" }

C2_Witness ==
    /\ endpoint = "generate_post"
    /\ response.status = 200
    /\ response.body.title = 70
    /\ response.body.body.len = 2100

\* C3 (as claimed): an output whose text lacks the structure its field
\* description asks for is never returned as a result.
C3_StructureValidated ==
    pc = "Validated" => completion.text.structured

\* C4: /generate_blog answers a body that lacks a required key with 400
\* and the message naming the first absent key (transcript, then topic),
\* before the generator or the client is reached; a body with both keys is
\* never answered with 400.
C4_MissingField400 ==
    endpoint = "generate_blog" =>
        IF KeyTranscript \in Keys(request_json) /\ KeyTopic \in Keys(request_json)
        THEN response.status # 400 /\ pc # "Rejected"
        ELSE /\ pc = "Rejected"
             /\ response.status = 400
             /\ response.body.error =
                    << "Missing required field: ",
                       IF KeyTranscript \notin Keys(request_json)
                       THEN "2.AI Transcript Rough" ELSE "12.Topic Name" >>
             /\ generator = "None"
             /\ sanitized_data = EmptyDict /\ messages = << >>
             /\ calls = 0 /\ completion_params = NoParams

C4_Witness ==
    /\ endpoint = "generate_blog"
    /\ KeyTranscript \in Keys(request_json)
    /\ KeyTopic \notin Keys(request_json)
    /\ response.status = 400

\* C5 (as claimed): no quote or backtick character of a field value is in
\* the messages.
C5_ValuesSanitized ==
    Built => \A v \in SlotValues :
                ~HasChar(v, SQ) /\ ~HasChar(v, DQ) /\ ~HasChar(v, BT)

\* C5 (amended): it is the keys that are sanitized: no key of the
\* generator's dictionary holds a single or a double quote, nor, in the
\* blog generator, a backtick, and every request key is in the dictionary
\* without these characters; the values reach the dictionary and the
\* messages as they came.
C5_KeysSanitizedValuesKept ==
    pc \in { "Sanitized", "MessagesBuilt", "AwaitingCompletion", "Validated", "Failed" } =>
        /\ \A k \in DOMAIN sanitized_data :
              /\ ~HasChar(k, SQ) /\ ~HasChar(k, DQ)
              /\ generator = "BlogPostGenerator" => ~HasChar(k, BT)
              /\ \E i \in 1..Len(request_json) :
                    sanitized_data[k] = request_json[i].value
        /\ \A i \in 1..Len(request_json) :
              SelectSeq(request_json[i].key,
                        LAMBDA c : /\ c # SQ /\ c # DQ
                                   /\ (generator = "BlogPostGenerator" => c # BT))
                 \in DOMAIN sanitized_data
        /\ Built => \A v \in SlotValues :
                       \/ v = EmptyStr
                       \/ \E i \in 1..Len(request_json) : v = request_json[i].value

C5_Witness ==
    /\ generator = "BlogPostGenerator"
    /\ pc = "MessagesBuilt"
    /\ <<BT, "6.Name">> \in Keys(request_json)
    /\ HasChar(SlotOf("6.Name"), BT)
    /\ HasChar(SlotOf("12.Topic Name"), SQ)

\* C6 (as claimed): a template key absent from the request contributes the
\* empty string, and the generator does not fail before it calls the
\* client.
C6_AbsentKeyEmpty ==
    /\ Built => \A k \in TemplateKeys :
                   <<k>> \notin Keys(request_json) => SlotOf(k) = EmptyStr
    /\ pc = "Failed" => calls = 1

\* C6 (amended): a template key that no request key equals once the
\* generator has sanitized it contributes the empty string; no request,
\* the empty one included, raises a key error or fails before the client
\* is called, and a valid output of the client makes the request succeed.
C6_UnmatchedKeyEmpty ==
    /\ Built => \A k \in TemplateKeys :
                   (\A i \in 1..Len(request_json) :
                       SelectSeq(request_json[i].key,
                                 LAMBDA c : /\ c # SQ /\ c # DQ
                                            /\ (generator = "BlogPostGenerator" => c # BT))
                          # <<k>>)
                   => SlotOf(k) = EmptyStr
    /\ exception.kind # "KeyError"
    /\ pc = "Failed" => calls = 1
    /\ pc \in { "MessagesBuilt", "AwaitingCompletion", "Validated" } => Built
    /\ completion # NoCompletion => pc = "Validated" /\ result # NoResult
    /\ pc = "Validated" /\ response # NoResponse => response.status = 200

C6_Witness ==
    /\ generator = "BlogPostGenerator"
    /\ request_json = << >>
    /\ pc = "Validated"
    /\ \A v \in SlotValues : v = EmptyStr

\* C7 (as claimed): a failure is answered with status 500 and a fixed
\* message; the text of the error is not in the response body.
C7_GenericError ==
    pc = "Failed" /\ response # NoResponse =>
        /\ response.status = 500
        /\ response.body.error = <<"Internal server error">>
        /\ response.body.error # exception.msg

\* The steps a request may take; a /generate_blog request answered with
\* 400 never enters a generator.
C8_Edges ==
    { <<"Idle", "Received">>, <<"Idle", "Rejected">>,
      <<"Received", "Sanitized">>, <<"Sanitized", "MessagesBuilt">>,
      <<"MessagesBuilt", "AwaitingCompletion">>,
      <<"AwaitingCompletion", "Validated">>,
      <<"AwaitingCompletion", "Failed">> }

C8_StepOnEdge == pc' # pc => <<pc, pc'>> \in C8_Edges

C8_TerminalStays ==
    pc \in { "Validated", "Failed" } =>
        /\ pc' = pc
        /\ calls' = calls
        /\ exception' = exception
        /\ result' = result

C8_CalledOnce ==
    calls = IF pc \in { "AwaitingCompletion", "Validated", "Failed" } THEN 1 ELSE 0

\* C8: a request goes Received, Sanitized, MessagesBuilt,
\* AwaitingCompletion and then Validated or Failed; create_completion is
\* called once, when the request starts to wait; a failure of the client
\* is the failure of the request, as the client raised it; and a request
\* that is Validated or Failed stays so and calls nothing more.
C8_OneCompletionPerRequest ==
    /\ [][C8_StepOnEdge]_vars
    /\ [][C8_TerminalStays]_vars
    /\ []C8_CalledOnce
    /\ [](pc = "Failed" => exception \in ClientErrors)

C8_Witness ==
    /\ pc = "Failed"
    /\ calls = 1
    /\ exception.kind = "ProviderFailure"
    /\ response.status = 500

\* C10 (as claimed): LLMFactory for a provider name without a client
\* initializer fails with the error "Unsupported LLM provider: <name>",
\* and for openai it does not.
C10_UnsupportedProvider ==
    llm.provider # "None" =>
        IF llm.provider = "openai"
        THEN llm.error.kind # "ValueError"
        ELSE /\ ~llm.built
             /\ llm.error.kind = "ValueError"
             /\ llm.error.msg = << "Unsupported LLM provider: ", llm.provider >>

====
